---- MODULE Spec2Model ----
(***************************************************************************)
(* The helper routines of the lecture notebooks as one state machine:      *)
(*   Lecture-10A-Taylors-Series.ipynb   plot_taylor_approximations         *)
(*   Lecture-13-Integral-Transforms.ipynb  DFT_slow, atomic_func,          *)
(*                                      aperture and the masking cell, the *)
(*                                      Fourier integrals of the slits,    *)
(*                                      the sampled-signal cells           *)
(* A behaviour is one evaluation of one cell in a fresh kernel: the first  *)
(* step chooses the call and its arguments, the following steps are the    *)
(* statements of the routine.                                              *)
(*                                                                         *)
(* Numbers.  Reals are modelled exactly: sample points and plotted values  *)
(* are rationals <<num, den>> in lowest terms, and a complex number built  *)
(* from N-th roots of unity is its vector of integer coefficients over the *)
(* powers of exp(2*pi*i/N).  Floating-point rounding is not modelled.      *)
(***************************************************************************)
EXTENDS Integers, Sequences, FiniteSets, TLC

VARIABLES
    pc,     \* control point of the cell being evaluated
    exc,    \* the exception the cell raised, "none" while it has raised none
    fig,    \* pyplot's current figure: lines, ylim, grid, legend
    heap,   \* numpy arrays by reference: heap[r] is the array object r
    env,    \* kernel namespace of Lecture 13: name -> reference (0 = unbound)
    args,   \* arguments of the running plot_taylor_approximations call
    loc     \* its local variables: x, x0, fx, i (position in orders), apps

vars == <<pc, exc, fig, heap, env, args, loc>>

----------------------------------------------------------------------------
(* Bounds of the model                                                     *)

MaxN == 4          \* longest DFT_slow input
MaxLen == 3        \* longest xrange sequence
MaxNpts == 3       \* largest npts
MaxOrders == 2     \* longest orders sequence
MaxDim == 2        \* largest side of a free-standing aperture grid

----------------------------------------------------------------------------
(* Generic helpers                                                         *)

\* Python's None is the empty tuple; an optional value v that is given is <<v>>
None == <<>>

Abs(a) == IF a < 0 THEN -a ELSE a

RECURSIVE Gcd(_, _)
Gcd(a, b) == IF b = 0 THEN a ELSE Gcd(b, a % b)

\* sequences over S of length 0..n
SeqsUpTo(S, n) == UNION {[1..m -> S] : m \in 0..n}

\* a 1-D array's data: a function on 0..N-1
Data1(s) == [i \in 0..(Len(s) - 1) |-> s[i + 1]]

NDArray(dtype, shape, data) ==
    [kind |-> "ndarray", dtype |-> dtype, shape |-> shape, data |-> data]

\* allocation of a new array object: the heap grows by one reference
Alloc(h, a) == Append(h, a)
NewRef(h) == Len(h) + 1

----------------------------------------------------------------------------
(* DFT_slow, Lecture 13.  A complex number in Z[exp(2*pi*i/N)] is the      *)
(* function 0..N-1 -> Int of its coefficients.                             *)

\* exp(sign * 2j * pi * num / N) for integers num: the power of the N-th
\* root of unity exp(2*pi*i/N) it equals, as an exponent in 0..N-1
CExpPlus(sign, num, N) == (num % N)
CExp(sign, num, N) == ((sign * num) % N)

\* np.asarray(x, dtype=float): the same object when x is already a float
\* ndarray, otherwise a new float array with the same values; the mutant
\* converts the argument in place
asarray_inplace(h, r) ==
    [heap |-> [h EXCEPT ![r] = [@ EXCEPT !.kind = "ndarray", !.dtype = "float"]], ref |-> r]
asarray_float(h, r) ==
    IF h[r].kind = "ndarray" /\ h[r].dtype = "float"
    THEN [heap |-> h, ref |-> r]
    ELSE [heap |-> Alloc(h, [h[r] EXCEPT !.kind = "ndarray", !.dtype = "float"]),
          ref |-> NewRef(h)]

\* np.arange(N)
arange(N) == [i \in 0..(N - 1) |-> i]

\* n.reshape((N, 1)): a column, k[i][0] = n[i]
reshape_col(n, N) == [i \in 0..(N - 1) |-> [j \in 0..0 |-> n[i]]]

\* M = np.exp(-2j * np.pi * k * n / N), k of shape (N,1) broadcast against n
DFT_matrix(N) ==
    LET n == arange(N)
        k == reshape_col(n, N)
    IN  [i \in 0..(N - 1) |-> [j \in 0..(N - 1) |-> CExp(-1, k[i][0] * n[j], N)]]

\* row . x for a row of unit roots and a real vector x: the coefficient of
\* each power of the root is the sum of the x[j] multiplying that power
RECURSIVE RowDot(_, _, _, _)
RowDot(row, x, N, j) ==
    IF j = N THEN [e \in 0..(N - 1) |-> 0]
    ELSE LET rest == RowDot(row, x, N, j + 1)
         IN  [rest EXCEPT ![row[j]] = @ + x[j]]

\* np.dot(M, x)
dot(M, x, N) == [i \in 0..(N - 1) |-> RowDot(M[i], x, N, 0)]

\* the body of DFT_slow on the array object r: the heap after the call and
\* the reference of the returned array
DFT_slow(h, r) ==
    LET a == asarray_float(h, r)
        x == a.heap[a.ref]
        N == x.shape[1]
        M == DFT_matrix(N)
        X == NDArray("complex", <<N>>, dot(M, x.data, N))
    IN  [heap |-> Alloc(a.heap, X), ref |-> NewRef(a.heap)]

----------------------------------------------------------------------------
(* atomic_func, aperture and the image cells, Lecture 13.  A 2-D array's   *)
(* data is a function rows -> (columns -> value), indexed from 0.          *)

param == 64

\* atomic_func at one point with integer coordinates.  Each sine has an
\* argument p*2*pi/param with p an integer, so its value is fixed by
\* p modulo param: the point's value (1+sin(s1*2*pi/param)) *
\* (1+sin(s2*2*pi/param)) / 4 is kept as the pair of reduced phases.
atomic_point_param48(x, y) == [s1 |-> (4 * (x + y)) % 48, s2 |-> (2 * (x - 2 * y)) % 48]
atomic_point(x, y) == [s1 |-> (4 * (x + y)) % param, s2 |-> (2 * (x - 2 * y)) % param]

Rows(A) == A.shape[1]
Cols(A) == A.shape[2]

\* atomic_func on arrays: elementwise, a new array of X's shape
atomic_func(X, Y) ==
    [kind |-> "ndarray", dtype |-> "float", shape |-> X.shape,
     data |-> [i \in 0..(Rows(X) - 1) |-> [j \in 0..(Cols(X) - 1) |->
                  atomic_point(X.data[i][j], Y.data[i][j])]]]

\* the comparison of aperture at one point
outside_ge(dx, dy, size) == dx * dx + dy * dy >= size * size
outside(dx, dy, size) == dx * dx + dy * dy > size * size

\* aperture(X, Y, xoffset, yoffset, size): a new Boolean array
aperture(X, Y, xoffset, yoffset, size) ==
    [kind |-> "ndarray", dtype |-> "bool", shape |-> X.shape,
     data |-> [i \in 0..(Rows(X) - 1) |-> [j \in 0..(Cols(X) - 1) |->
                  outside(X.data[i][j] - xoffset, Y.data[i][j] - yoffset, size)]]]

\* np.meshgrid(x, y): X[i][j] = x[j], Y[i][j] = y[i], both of shape (len(y), len(x));
\* the mutant is indexing='ij'
meshgrid_ij(x, y) ==
    LET shp == <<x.shape[1], y.shape[1]>>
    IN  [X |-> [kind |-> "ndarray", dtype |-> x.dtype, shape |-> shp,
                data |-> [i \in 0..(shp[1] - 1) |-> [j \in 0..(shp[2] - 1) |-> x.data[i]]]],
         Y |-> [kind |-> "ndarray", dtype |-> y.dtype, shape |-> shp,
                data |-> [i \in 0..(shp[1] - 1) |-> [j \in 0..(shp[2] - 1) |-> y.data[j]]]]]
meshgrid(x, y) ==
    LET shp == <<y.shape[1], x.shape[1]>>
    IN  [X |-> [kind |-> "ndarray", dtype |-> x.dtype, shape |-> shp,
                data |-> [i \in 0..(shp[1] - 1) |-> [j \in 0..(shp[2] - 1) |-> x.data[j]]]],
         Y |-> [kind |-> "ndarray", dtype |-> y.dtype, shape |-> shp,
                data |-> [i \in 0..(shp[1] - 1) |-> [j \in 0..(shp[2] - 1) |-> y.data[i]]]]]

\* np.arange(0.0, stop, 1.0)
arange_float(stop) == [kind |-> "ndarray", dtype |-> "float", shape |-> <<stop>>,
                       data |-> [i \in 0..(stop - 1) |-> i]]

\* np.zeros(shape, dtype=complex)
zeros(shape) == [kind |-> "ndarray", dtype |-> "complex", shape |-> shape,
                 data |-> [i \in 0..(shape[1] - 1) |-> [j \in 0..(shape[2] - 1) |-> 0]]]

\* A & B for Boolean arrays
and_(A, B) ==
    [kind |-> "ndarray", dtype |-> "bool", shape |-> A.shape,
     data |-> [i \in 0..(Rows(A) - 1) |-> [j \in 0..(Cols(A) - 1) |->
                  A.data[i][j] /\ B.data[i][j]]]]

\* A[np.where(B)] = v: A with v stored wherever B is True
setitem_where(A, B, v) ==
    [A EXCEPT !.data = [i \in 0..(Rows(A) - 1) |-> [j \in 0..(Cols(A) - 1) |->
                            IF B.data[i][j] THEN v ELSE A.data[i][j]]]]

\* the grid of the image cells and the two apertures of the masking cell
GridSize == 256
Ap1X == 128
Ap1Y == 128
Ap2X == 150
Ap2Y == 128
ApSize == 3

\* fftshift(fft2(Z, norm='ortho')) is the FFT library's: any complex array
\* of Z's shape.  Complex values are integers here (0 is zero); the spectra
\* tried are those of a small family, one per seed <<a, b, c, m>>.
Spectra == {<<0, 0, 0, 2>>, <<0, 0, 1, 2>>, <<1, 1, 0, 2>>, <<1, 2, 1, 3>>, <<3, 1, 2, 5>>}
fft2_shifted(Z, s) ==
    [kind |-> "ndarray", dtype |-> "complex", shape |-> Z.shape,
     data |-> [i \in 0..(Rows(Z) - 1) |-> [j \in 0..(Cols(Z) - 1) |->
                  (s[1] * i + s[2] * j + s[3]) % s[4]]]]

\* np.copy(A): a new object with A's contents; the mutant binds the same object
copy_alias(h, r) == [heap |-> h, ref |-> r]
copy(h, r) == [heap |-> Alloc(h, h[r]), ref |-> NewRef(h)]

\* an object no name refers to any more is collected
Freed == [kind |-> "freed"]
Free(h, r) == IF r = 0 THEN h ELSE [h EXCEPT ![r] = Freed]

----------------------------------------------------------------------------
(* Rational arithmetic: <<n, d>> with d > 0 and gcd(n, d) = 1               *)

Rat(n, d) ==
    LET g == Gcd(Abs(n), Abs(d))
        s == IF d < 0 THEN -1 ELSE 1
    IN  <<(s * n) \div g, (s * d) \div g>>
RInt(k) == <<k, 1>>
\* p is the pair of operands, each evaluated once before it is used
RAdd(a, b) ==
    CHOOSE r \in {Rat(p[1][1] * p[2][2] + p[2][1] * p[1][2], p[1][2] * p[2][2]) :
                     p \in {<<a, b>>}} : TRUE
RSub(a, b) ==
    CHOOSE r \in {Rat(p[1][1] * p[2][2] - p[2][1] * p[1][2], p[1][2] * p[2][2]) :
                     p \in {<<a, b>>}} : TRUE
RMul(a, b) ==
    CHOOSE r \in {Rat(p[1][1] * p[2][1], p[1][2] * p[2][2]) : p \in {<<a, b>>}} : TRUE

RECURSIVE RPow(_, _)
RPow(a, k) == IF k = 0 THEN RInt(1) ELSE RMul(a, RPow(a, k - 1))

RECURSIVE Choose(_, _)
Choose(n, k) == IF k = 0 \/ k = n THEN 1 ELSE Choose(n - 1, k - 1) + Choose(n - 1, k)

\* truncation toward zero, as storing a float into an integer array does
Trunc(a) == IF a[1] >= 0 THEN a[1] \div a[2] ELSE -((-a[1]) \div a[2])

----------------------------------------------------------------------------
(* plot_taylor_approximations, Lecture 10A.  1-D arrays are sequences:     *)
(* Python's x[0] is x.vals[1].  A sympy expression in x is a polynomial,   *)
(* the sequence of its integer coefficients, lowest power first.           *)

\* callable(func)
callable_any(func) == TRUE
callable(func) == func.callable

\* isinstance(xrange, (list, tuple))
is_pair_len2(xrange) == Len(xrange.vals) = 2
is_pair(xrange) == xrange.kind \in {"list", "tuple"}

\* np.linspace(start, stop, npts) for npts >= 0: start + i*(stop-start)/(npts-1)
linspace_open(start, stop, npts) ==
    [i \in 1..npts |-> RAdd(RInt(start), Rat((i - 1) * (stop - start), npts))]
linspace(start, stop, npts) ==
    IF npts = 1 THEN <<RInt(start)>>
    ELSE [i \in 1..npts |-> RAdd(RInt(start), Rat((i - 1) * (stop - start), npts - 1))]

\* if x0 is None: x0 = x[0]
default_x0_last(x0, x) == IF x0 = None THEN x.vals[Len(x.vals)] ELSE RInt(x0[1])
default_x0(x0, x) == IF x0 = None THEN x.vals[1] ELSE RInt(x0[1])

\* the value of the polynomial fx at the rational point v
RECURSIVE PolyFrom(_, _, _)
PolyFrom(fx, v, k) ==
    IF k > Len(fx) - 1 THEN RInt(0)
    ELSE RAdd(RMul(RInt(fx[k + 1]), RPow(v, k)), PolyFrom(fx, v, k + 1))
PolyEval(fx, v) == PolyFrom(fx, v, 0)

\* fx.series(xs, x0, n=order).removeO(): the coefficients a_j of (x - x0)^j
\* for j < order, a_j = sum over i >= j of C(i, j) * fx_i * x0^(i-j)
RECURSIVE SeriesCoef(_, _, _, _)
SeriesCoef(fx, x0, j, i) ==
    IF i > Len(fx) - 1 THEN RInt(0)
    ELSE RAdd(RMul(RInt(Choose(i, j) * fx[i + 1]), RPow(x0, i - j)),
              SeriesCoef(fx, x0, j, i + 1))
series_removeO(fx, x0, order) ==
    LET deg == Len(fx) - 1
        m == IF order < deg + 1 THEN order ELSE deg + 1
    IN  [x0 |-> x0, c |-> [j \in 1..m |-> SeriesCoef(fx, x0, j - 1, j - 1)]]

\* isinstance(app, sp.numbers.Number): no power of x is left in app
is_Number(app) == \A j \in 2..Len(app.c) : app.c[j] = RInt(0)

\* app.evalf() of a Number
evalf(app) == IF Len(app.c) = 0 THEN RInt(0) ELSE app.c[1]

\* the value of app at the rational point v
RECURSIVE AppFrom(_, _, _)
AppFrom(app, v, j) ==
    IF j > Len(app.c) - 1 THEN RInt(0)
    ELSE RAdd(RMul(app.c[j + 1], RPow(RSub(v, app.x0), j)), AppFrom(app, v, j + 1))
AppEval(app, v) == AppFrom(app, v, 0)

\* y = np.zeros_like(x); y.fill(v): x's shape and dtype, an integer array
\* truncates v
zeros_like_fill(x, v) ==
    [dtype |-> x.dtype,
     vals |-> [i \in 1..Len(x.vals) |-> IF x.dtype = "int" THEN RInt(Trunc(v)) ELSE v]]

\* fa = sp.lambdify(xs, app); fa(x) for an app that is not a Number
lambdify_call(app, x) ==
    [dtype |-> "float", vals |-> [i \in 1..Len(x.vals) |-> AppEval(app, x.vals[i])]]

\* f = sp.lambdify(xs, fx); f(x)
f_call(fx, x) ==
    [dtype |-> x.dtype, vals |-> [i \in 1..Len(x.vals) |-> PolyEval(fx, x.vals[i])]]

\* plt.plot(x, y, label=...): one more line on the current axes; the
\* mutant skips a curve whose label is already plotted
plt_plot_skip_dup(f, x, y, label) ==
    IF \E l \in 1..Len(f.lines) : f.lines[l].label = label
    THEN f
    ELSE [f EXCEPT !.lines = Append(@, [x |-> x.vals, y |-> y.vals, label |-> label])]
plt_plot(f, x, y, label) ==
    [f EXCEPT !.lines = Append(@, [x |-> x.vals, y |-> y.vals, label |-> label])]

\* for order in orders: the iterator is exhausted after len(orders) items;
\* the mutant stops one item early
orders_exhausted_early(i, orders) == i >= Len(orders) - 1
orders_exhausted(i, orders) == i >= Len(orders)

\* yrange is not None; the mutant tests the opposite
yrange_is_None(yrange) == yrange = None
yrange_given(yrange) == yrange # None

\* plt.ylim(*yrange)
plt_ylim(f, yrange) == [f EXCEPT !.ylim = yrange]

\* plt.grid() without arguments toggles the grid lines
plt_grid(f) == [f EXCEPT !.grid = ~@]

\* plt.legend(loc='best').get_frame().set_alpha(0.8)
plt_legend(f) == [f EXCEPT !.legend = TRUE]

----------------------------------------------------------------------------
(* The state before any cell has run                                       *)

EmptyFig == [lines |-> <<>>, ylim |-> None, grid |-> FALSE, legend |-> FALSE]
NoArgs == [func |-> [callable |-> FALSE, fx |-> <<>>], x0 |-> None, orders |-> <<>>,
           xrange |-> [kind |-> "tuple", dtype |-> "int", vals |-> <<>>],
           yrange |-> None, npts |-> 0]
NoLoc == [x |-> [dtype |-> "float", vals |-> <<>>], x0 |-> None, fx |-> <<>>,
          i |-> 0, apps |-> <<>>]
NoEnv == [x_signal |-> 0, dft |-> 0, x |-> 0, y |-> 0, X |-> 0, Y |-> 0, Z |-> 0,
          P |-> 0, K |-> 0, mask |-> 0, ap |-> <<>>,
          a |-> 0, compositeIntegral |-> 0, om |-> 0, dw |-> <<>>, result |-> 0,
          diffraction |-> 0,
          timeVector |-> 0, ourSignal |-> 0, n |-> 0, frequencies |-> 0, spectrum |-> 0]

Init ==
    /\ pc = "idle"
    /\ exc = "none"
    /\ fig = EmptyFig
    /\ heap = <<>>
    /\ env = NoEnv
    /\ args = NoArgs
    /\ loc = NoLoc

----------------------------------------------------------------------------
(* Arguments tried for plot_taylor_approximations                          *)

\* lambda x: x**2 + 1, lambda x: x**3 - x, and the expression x**2 + 1
\* itself, which is not callable
Funcs == {[callable |-> TRUE, fx |-> <<1, 0, 1>>],
          [callable |-> TRUE, fx |-> <<0, -1, 0, 1>>],
          [callable |-> FALSE, fx |-> <<1, 0, 1>>]}
X0s == {None, <<1>>}
OrderVals == {1, 3}
XVals == {0, 2}
XKinds == {<<"tuple", "int">>, <<"list", "int">>, <<"ndarray", "int">>, <<"ndarray", "float">>}
YRanges == {None, <<-2, 2>>}

\* the calls tried: every combination of the argument values above
XRanges == {[kind |-> k[1], dtype |-> k[2], vals |-> v] :
               k \in XKinds, v \in SeqsUpTo(XVals, MaxLen)}
TaylorArgs == [func : Funcs, x0 : X0s, orders : SeqsUpTo(OrderVals, MaxOrders),
               xrange : XRanges, yrange : YRanges, npts : (-1)..MaxNpts]

Raise(msg) == /\ exc' = msg
              /\ pc' = "raised"

\* plot_taylor_approximations(func, x0, orders, xrange, yrange, npts)
CallTaylor ==
    /\ pc = "idle"
    /\ args' \in TaylorArgs
    /\ pc' = "t_callable"
    /\ UNCHANGED <<exc, fig, heap, env, loc>>

\* if not callable(func): raise ValueError('func must be callable')
T_callable ==
    /\ pc = "t_callable"
    /\ IF ~callable(args.func)
       THEN Raise("ValueError: func must be callable")
       ELSE pc' = "t_sample" /\ exc' = exc
    /\ UNCHANGED <<fig, heap, env, args, loc>>

\* if isinstance(xrange, (list, tuple)): x = np.linspace(float(xrange[0]),
\* float(xrange[1]), npts) else: x = xrange
T_sample ==
    /\ pc = "t_sample"
    /\ LET xr == args.xrange IN
       IF is_pair(xr)
       THEN IF Len(xr.vals) < 2
            THEN Raise("IndexError") /\ loc' = loc
            ELSE IF args.npts < 0
                 THEN Raise("ValueError: Number of samples must be non-negative") /\ loc' = loc
                 ELSE /\ loc' = [loc EXCEPT !.x = [dtype |-> "float",
                                     vals |-> linspace(xr.vals[1], xr.vals[2], args.npts)]]
                      /\ pc' = "t_x0"
                      /\ exc' = exc
       ELSE /\ loc' = [loc EXCEPT !.x = [dtype |-> xr.dtype,
                                         vals |-> [i \in 1..Len(xr.vals) |-> RInt(xr.vals[i])]]]
            /\ pc' = "t_x0"
            /\ exc' = exc
    /\ UNCHANGED <<fig, heap, env, args>>

\* if x0 is None: x0 = x[0]
T_x0 ==
    /\ pc = "t_x0"
    /\ IF args.x0 = None /\ Len(loc.x.vals) = 0
       THEN Raise("IndexError") /\ loc' = loc
       ELSE /\ loc' = [loc EXCEPT !.x0 = default_x0(args.x0, loc.x)]
            /\ pc' = "t_fx"
            /\ exc' = exc
    /\ UNCHANGED <<fig, heap, env, args>>

\* xs = sp.Symbol('x'); fx = func(xs); f = sp.lambdify(xs, fx, modules=['numpy'])
T_fx ==
    /\ pc = "t_fx"
    /\ IF ~args.func.callable
       THEN Raise("TypeError: object is not callable") /\ loc' = loc
       ELSE /\ loc' = [loc EXCEPT !.fx = args.func.fx]
            /\ pc' = "t_plotf"
            /\ exc' = exc
    /\ UNCHANGED <<fig, heap, env, args>>

\* plt.plot(x, f(x), label=str(fx), lw=2); apps = {}
T_plotf ==
    /\ pc = "t_plotf"
    /\ fig' = plt_plot(fig, loc.x, f_call(loc.fx, loc.x), [order |-> 0, app |-> loc.fx])
    /\ loc' = [loc EXCEPT !.apps = <<>>, !.i = 0]
    /\ pc' = "t_for"
    /\ UNCHANGED <<exc, heap, env, args>>

\* one iteration of: for order in orders
T_for_body ==
    /\ pc = "t_for"
    /\ ~orders_exhausted(loc.i, args.orders)
    /\ LET order == args.orders[loc.i + 1]
           app == series_removeO(loc.fx, loc.x0, order)
           y == IF is_Number(app) THEN zeros_like_fill(loc.x, evalf(app))
                                  ELSE lambdify_call(app, loc.x)
       IN  /\ fig' = plt_plot(fig, loc.x, y, [order |-> order, app |-> app])
           /\ loc' = [loc EXCEPT !.i = @ + 1,
                                 !.apps = [o \in (DOMAIN loc.apps) \cup {order} |->
                                              IF o = order THEN app ELSE loc.apps[o]]]
    /\ UNCHANGED <<pc, exc, heap, env, args>>

\* orders is exhausted
T_for_exit ==
    /\ pc = "t_for"
    /\ orders_exhausted(loc.i, args.orders)
    /\ pc' = "t_ylim"
    /\ UNCHANGED <<exc, fig, heap, env, args, loc>>

\* if yrange is not None: plt.ylim(*yrange)
T_ylim ==
    /\ pc = "t_ylim"
    /\ fig' = IF yrange_given(args.yrange) THEN plt_ylim(fig, args.yrange) ELSE fig
    /\ pc' = "t_grid"
    /\ UNCHANGED <<exc, heap, env, args, loc>>

\* plt.grid()
T_grid ==
    /\ pc = "t_grid"
    /\ fig' = plt_grid(fig)
    /\ pc' = "t_legend"
    /\ UNCHANGED <<exc, heap, env, args, loc>>

\* plt.legend(loc='best').get_frame().set_alpha(0.8), and the return
T_legend ==
    /\ pc = "t_legend"
    /\ fig' = plt_legend(fig)
    /\ pc' = "done"
    /\ UNCHANGED <<exc, heap, env, args, loc>>

TaylorNext ==
    \/ CallTaylor
    \/ T_callable
    \/ T_sample
    \/ T_x0
    \/ T_fx
    \/ T_plotf
    \/ T_for_body
    \/ T_for_exit
    \/ T_ylim
    \/ T_grid
    \/ T_legend

SpecTaylor == Init /\ [][TaylorNext]_vars

----------------------------------------------------------------------------
(* The cells of Lecture 13                                                 *)

\* inputs tried for DFT_slow: a list of ints, an integer array, a float array
SignalVals == {-1, 0, 2}
SignalKinds == {<<"list", "int">>, <<"ndarray", "int">>, <<"ndarray", "float">>}

Signals == {[kind |-> k[1], dtype |-> k[2], shape |-> <<Len(v)>>, data |-> Data1(v)] :
               k \in SignalKinds, v \in SeqsUpTo(SignalVals, MaxN)}

\* x_signal = ...: the input of DFT_slow is bound
CallDFT ==
    /\ pc = "idle"
    /\ \E a \in Signals : heap' = <<a>>
    /\ env' = [env EXCEPT !.x_signal = 1]
    /\ pc' = "dft_call"
    /\ UNCHANGED <<exc, fig, args, loc>>

\* DFT_slow(x_signal)
DFT_call ==
    /\ pc = "dft_call"
    /\ LET r == DFT_slow(heap, env.x_signal)
       IN  /\ heap' = r.heap
           /\ env' = [env EXCEPT !.dft = r.ref]
    /\ pc' = "dft_done"
    /\ UNCHANGED <<exc, fig, args, loc>>

\* coordinates, offsets and sizes tried for a free-standing aperture call
Coords == {0, 3, 4}
Offsets == {0, 1}
Sizes == {0, 5}

\* X, Y = np.meshgrid(xv, yv) for some coordinate vectors, and the scalars
CallAperture ==
    /\ pc = "idle"
    /\ \E xv \in SeqsUpTo(Coords, MaxDim) \ {<<>>}, yv \in SeqsUpTo(Coords, MaxDim) \ {<<>>},
          xo \in Offsets, yo \in Offsets, size \in Sizes :
          LET g == meshgrid(NDArray("int", <<Len(xv)>>, Data1(xv)),
                            NDArray("int", <<Len(yv)>>, Data1(yv)))
          IN  /\ heap' = <<g.X, g.Y>>
              /\ env' = [env EXCEPT !.X = 1, !.Y = 2, !.ap = <<xo, yo, size>>]
    /\ pc' = "ap_call"
    /\ UNCHANGED <<exc, fig, args, loc>>

\* aperture(X, Y, xoffset, yoffset, size)
Aperture_call ==
    /\ pc = "ap_call"
    /\ heap' = Alloc(heap, aperture(heap[env.X], heap[env.Y], env.ap[1], env.ap[2], env.ap[3]))
    /\ env' = [env EXCEPT !.mask = NewRef(heap)]
    /\ pc' = "ap_done"
    /\ UNCHANGED <<exc, fig, args, loc>>

\* x = np.arange(0.0,256.0,1.0); y = np.arange(0.0,256.0,1.0)
I_xy ==
    /\ pc = "idle"
    /\ heap' = <<arange_float(GridSize), arange_float(GridSize)>>
    /\ env' = [env EXCEPT !.x = 1, !.y = 2]
    /\ pc' = "i_meshgrid"
    /\ UNCHANGED <<exc, fig, args, loc>>

\* X,Y = np.meshgrid(x, y)
I_meshgrid ==
    /\ pc = "i_meshgrid"
    /\ LET g == meshgrid(heap[env.x], heap[env.y])
       IN  heap' = Alloc(Alloc(heap, g.X), g.Y)
    /\ env' = [env EXCEPT !.X = NewRef(heap), !.Y = NewRef(heap) + 1]
    /\ pc' = "i_Z"
    /\ UNCHANGED <<exc, fig, args, loc>>

\* Z = atomic_func(X,Y)
I_Z ==
    /\ pc = "i_Z"
    /\ heap' = Alloc(heap, atomic_func(heap[env.X], heap[env.Y]))
    /\ env' = [env EXCEPT !.Z = NewRef(heap)]
    /\ pc' = "i_Pzeros"
    /\ UNCHANGED <<exc, fig, args, loc>>

\* P = np.zeros(Z.shape,dtype=complex)
I_Pzeros ==
    /\ pc = "i_Pzeros"
    /\ heap' = Alloc(heap, zeros(heap[env.Z].shape))
    /\ env' = [env EXCEPT !.P = NewRef(heap)]
    /\ pc' = "i_Kzeros"
    /\ UNCHANGED <<exc, fig, args, loc>>

\* K = np.zeros(Z.shape,dtype=complex)
I_Kzeros ==
    /\ pc = "i_Kzeros"
    /\ heap' = Alloc(heap, zeros(heap[env.Z].shape))
    /\ env' = [env EXCEPT !.K = NewRef(heap)]
    /\ pc' = "i_fft"
    /\ UNCHANGED <<exc, fig, args, loc>>

\* K = fftshift(fft2(Z, norm='ortho')): K is rebound, the zeros are collected
I_fft ==
    /\ pc = "i_fft"
    /\ \E s \in Spectra : heap' = Alloc(Free(heap, env.K), fft2_shifted(heap[env.Z], s))
    /\ env' = [env EXCEPT !.K = NewRef(heap)]
    /\ pc' = "i_copy"
    /\ UNCHANGED <<exc, fig, args, loc>>

\* P = np.copy(K): P is rebound, the zeros are collected
I_copy ==
    /\ pc = "i_copy"
    /\ LET c == copy(Free(heap, env.P), env.K)
       IN  /\ heap' = c.heap
           /\ env' = [env EXCEPT !.P = c.ref]
    /\ pc' = "i_mask"
    /\ UNCHANGED <<exc, fig, args, loc>>

\* P[np.where(aperture(X, Y, 128, 128, 3) & aperture(X, Y, 150, 128, 3))] = 0
I_mask ==
    /\ pc = "i_mask"
    /\ LET m == and_(aperture(heap[env.X], heap[env.Y], Ap1X, Ap1Y, ApSize),
                     aperture(heap[env.X], heap[env.Y], Ap2X, Ap2Y, ApSize))
       IN  heap' = [heap EXCEPT ![env.P] = setitem_where(@, m, 0)]
    /\ pc' = "i_done"
    /\ UNCHANGED <<exc, fig, env, args, loc>>

----------------------------------------------------------------------------
(* The Fourier integrals of the aperture cells (sympy).  An expression is   *)
(* a sum of products prefactor * Integral, kept as the function that gives  *)
(* each product its multiplicity, so that the order of the summands does    *)
(* not matter and equal summands collect, as in sympy's Add.                *)

\* a limit of integration sym*c + num; float marks a number python computed
\* from floats before sympy saw it
Symbol_c == [sym |-> 1, num |-> RInt(0), float |-> FALSE]
Integer(k) == [sym |-> 0, num |-> RInt(k), float |-> FALSE]
Float(r) == [sym |-> 0, num |-> r, float |-> TRUE]
neg(p) == [p EXCEPT !.sym = -@, !.num = RSub(RInt(0), @)]

\* the number a limit stands for, whatever its type
Value(p) == <<p.sym, p.num>>

\* sp.sqrt(1/(m*sp.pi))
sp_sqrt_inv_pi(m) == [fn |-> "sqrt", num |-> 1, den_pi |-> m]

\* sp.Integral(1*sp.exp(-sp.I*k*omega*x), (x, lo, hi))
sp_Integral(k, lo, hi) == [f |-> 1, k |-> k, var |-> "x", lo |-> lo, hi |-> hi]

\* pref * integral, as an expression of one summand
Mul(pref, integral) == [terms |-> [t \in {[pref |-> pref, integral |-> integral]} |-> 1]]

\* e1 + e2
Add(e1, e2) ==
    [terms |-> [t \in (DOMAIN e1.terms) \cup (DOMAIN e2.terms) |->
                   (IF t \in DOMAIN e1.terms THEN e1.terms[t] ELSE 0)
                 + (IF t \in DOMAIN e2.terms THEN e2.terms[t] ELSE 0)]]

\* the Fourier transform as the notebook defines it:
\* sqrt(1/(2 pi)) * integral of f(t) exp[-i omega t] dt
FourierDefinition == [pref |-> sp_sqrt_inv_pi(2), k |-> 1]

\* .doit(): each integral of exp(-I*k*omega*x) from lo to hi becomes
\* (I/(k*omega)) * (exp(-I*k*omega*hi) - exp(-I*k*omega*lo)).  The result is
\* kept as the net coefficient of pref*(I/(k*omega))*exp(-I*k*omega*p) for
\* each <<pref, k, p>>; coefficients that cancel drop out.
RECURSIVE NetOver(_, _, _)
NetOver(S, terms, q) ==
    IF S = {} THEN 0
    ELSE LET t == CHOOSE u \in S : TRUE
             hi == <<t.pref, t.integral.k, t.integral.hi>>
             lo == <<t.pref, t.integral.k, t.integral.lo>>
         IN  terms[t] * ((IF q = hi THEN 1 ELSE 0) - (IF q = lo THEN 1 ELSE 0))
             + NetOver(S \ {t}, terms, q)
doit(e) ==
    LET T == DOMAIN e.terms
        keys == UNION {{<<t.pref, t.integral.k, t.integral.lo>>,
                        <<t.pref, t.integral.k, t.integral.hi>>} : t \in T}
        live == {q \in keys : NetOver(T, e.terms, q) # 0}
    IN  [coef |-> [q \in live |-> NetOver(T, e.terms, q)]]

\* result of diffractionFunction before .doit(); the mutant writes the
\* limits of the left slit in the other order
diffractionFunction_reversed(d, w) ==
    Add(Mul(sp_sqrt_inv_pi(2), sp_Integral(2, Float(RSub(RInt(0), RSub(d, w))),
                                              Float(RSub(RInt(0), RAdd(d, w))))),
        Mul(sp_sqrt_inv_pi(2), sp_Integral(2, Float(RSub(d, w)), Float(RAdd(d, w)))))
diffractionFunction_result(d, w) ==
    Add(Mul(sp_sqrt_inv_pi(2), sp_Integral(2, Float(RSub(RInt(0), RAdd(d, w))),
                                              Float(RSub(RInt(0), RSub(d, w))))),
        Mul(sp_sqrt_inv_pi(2), sp_Integral(2, Float(RSub(d, w)), Float(RAdd(d, w)))))

\* slit positions and half-widths tried: the defaults (4.0, 1.0), the call
\* of the notebook (10., 2.), the slits of compositeIntegral (1.5, 0.5)
SlitD == {Rat(3, 2), RInt(4), RInt(10)}
SlitW == {Rat(1, 2), RInt(1), RInt(2)}

\* a = sp.sqrt(1/(2*sp.pi))*sp.integrate(1*sp.exp(-sp.I*2*omega*x),(x,-c,c))
S_a ==
    /\ pc = "idle"
    /\ heap' = <<doit(Mul(sp_sqrt_inv_pi(2), sp_Integral(2, neg(Symbol_c), Symbol_c)))>>
    /\ env' = [env EXCEPT !.a = 1]
    /\ pc' = "s_composite"
    /\ UNCHANGED <<exc, fig, args, loc>>

\* compositeIntegral = sqrt(1/(2 pi))*Integral(..., (x,1,2))
\*                   + sqrt(1/(2 pi))*Integral(..., (x,-2,-1))
S_composite ==
    /\ pc = "s_composite"
    /\ heap' = Alloc(heap,
                     Add(Mul(sp_sqrt_inv_pi(2), sp_Integral(2, Integer(1), Integer(2))),
                         Mul(sp_sqrt_inv_pi(2), sp_Integral(2, Integer(-2), Integer(-1)))))
    /\ env' = [env EXCEPT !.compositeIntegral = NewRef(heap)]
    /\ pc' = "s_om"
    /\ UNCHANGED <<exc, fig, args, loc>>

\* om = compositeIntegral.doit()
S_om ==
    /\ pc = "s_om"
    /\ heap' = Alloc(heap, doit(heap[env.compositeIntegral]))
    /\ env' = [env EXCEPT !.om = NewRef(heap)]
    /\ pc' = "s_call"
    /\ UNCHANGED <<exc, fig, args, loc>>

\* a call diffractionFunction(d, w)
CallDiffraction ==
    /\ pc = "s_call"
    /\ \E d \in SlitD, w \in SlitW : env' = [env EXCEPT !.dw = <<d, w>>]
    /\ pc' = "d_result"
    /\ UNCHANGED <<exc, fig, heap, args, loc>>

\* result = ... + ...
D_result ==
    /\ pc = "d_result"
    /\ heap' = Alloc(heap, diffractionFunction_result(env.dw[1], env.dw[2]))
    /\ env' = [env EXCEPT !.result = NewRef(heap)]
    /\ pc' = "d_return"
    /\ UNCHANGED <<exc, fig, args, loc>>

\* return result.doit()
D_return ==
    /\ pc = "d_return"
    /\ heap' = Alloc(heap, doit(heap[env.result]))
    /\ env' = [env EXCEPT !.diffraction = NewRef(heap)]
    /\ pc' = "s_done"
    /\ UNCHANGED <<exc, fig, args, loc>>

----------------------------------------------------------------------------
(* The sampled-signal demonstration                                         *)

samplingRate == 150
signalFrequency == 10

RDiv(a, b) == Rat(a[1] * b[2], a[2] * b[1])
RAbs(a) == <<Abs(a[1]), a[2]>>

\* the fractional part of a, in [0, 1)
Frac(a) == Rat(a[1] % a[2], a[2])

\* math.ceil of a positive number
Ceil(a) == IF a[1] % a[2] = 0 THEN a[1] \div a[2] ELSE (a[1] \div a[2]) + 1

\* np.arange(start, stop, step) with a float step: ceil((stop - start)/step)
\* values start + j*step, stop left out; the mutant keeps stop as well
arange_closed(start, stop, step) ==
    LET q == RDiv(RSub(stop, start), step)
        len == IF q[1] <= 0 THEN 0 ELSE Ceil(q) + 1
    IN  [kind |-> "ndarray", dtype |-> "float", shape |-> <<len>>,
         data |-> [j \in 0..(len - 1) |-> RAdd(start, RMul(RInt(j), step))]]
arange_step(start, stop, step) ==
    LET q == RDiv(RSub(stop, start), step)
        len == IF q[1] <= 0 THEN 0 ELSE Ceil(q)
    IN  [kind |-> "ndarray", dtype |-> "float", shape |-> <<len>>,
         data |-> [j \in 0..(len - 1) |-> RAdd(start, RMul(RInt(j), step))]]

\* amp*np.sin(2*np.pi*f*t) at one instant t: the sine is fixed by the
\* fractional number of turns f*t
sin_component(amp, f, t) == [amp |-> amp, turns |-> Frac(RMul(f, t))]

\* np.fft.fftfreq(n, d)
fftfreq(n, d) ==
    LET val == RDiv(RInt(1), RMul(RInt(n), d))
        N == ((n - 1) \div 2) + 1
    IN  [kind |-> "ndarray", dtype |-> "float", shape |-> <<n>>,
         data |-> [k \in 0..(n - 1) |->
                     IF k < N THEN RMul(RInt(k), val)
                              ELSE RMul(RInt(-(n \div 2) + (k - N)), val)]]

\* the whole number m of cycles that component c completes over the record,
\* when its samples are those of amp*sin(2 pi m j/n); None otherwise
whole_cycles(sig, c) ==
    LET n == sig.shape[1]
        m == IF n > 1 THEN RMul(sig.data[1][c].turns, RInt(n)) ELSE RInt(0)
    IN  IF m[2] = 1 /\ \A j \in 0..(n - 1) : sig.data[j][c].turns = Frac(Rat(m[1] * j, n))
        THEN <<m[1]>>
        ELSE None

\* the imaginary part of bin k of np.fft.fft(sig), summed over the first c
\* components: amp*sin(2 pi m j/n) puts -amp*n/2 on bin m and +amp*n/2 on
\* bin n - m, and nothing elsewhere
RECURSIVE fft_imag(_, _, _)
fft_imag(sig, k, c) ==
    IF c = 0 THEN RInt(0)
    ELSE LET n == sig.shape[1]
             m == whole_cycles(sig, c)[1]
             at == (IF (k + m) % n = 0 THEN 1 ELSE 0) - (IF (k - m) % n = 0 THEN 1 ELSE 0)
         IN  RAdd(RMul(RMul(sig.data[0][c].amp, Rat(n, 2)), RInt(at)),
                  fft_imag(sig, k, c - 1))

\* np.abs(np.fft.fft(sig)); a component with a broken number of cycles
\* leaks into every bin, which is all that is kept of it
fft_abs(sig) ==
    LET n == sig.shape[1]
        C == IF n = 0 THEN 0 ELSE Len(sig.data[0])
        leak == \E c \in 1..C : whole_cycles(sig, c) = None
    IN  [kind |-> "ndarray", dtype |-> "float", shape |-> <<n>>,
         data |-> [k \in 0..(n - 1) |->
                     IF leak THEN [leak |-> TRUE, mag |-> RInt(0)]
                             ELSE [leak |-> FALSE, mag |-> RAbs(fft_imag(sig, k, C))]]]

\* samplingRate = 150.0; samplingInterval = 1.0/samplingRate
\* timeVector = np.arange(0, 1, samplingInterval)
F_time ==
    /\ pc = "idle"
    /\ heap' = <<arange_step(RInt(0), RInt(1), RDiv(RInt(1), RInt(samplingRate)))>>
    /\ env' = [env EXCEPT !.timeVector = 1]
    /\ pc' = "f_signal"
    /\ UNCHANGED <<exc, fig, args, loc>>

\* signalFrequency = 10.0
\* ourSignal = np.sin(2*np.pi*signalFrequency*timeVector)
\*           + 0.5*np.sin(2*np.pi*(2*signalFrequency)*timeVector)
F_signal ==
    /\ pc = "f_signal"
    /\ LET t == heap[env.timeVector]
       IN  heap' = Alloc(heap,
              [kind |-> "ndarray", dtype |-> "float", shape |-> t.shape,
               data |-> [j \in DOMAIN t.data |->
                           <<sin_component(RInt(1), RInt(signalFrequency), t.data[j]),
                             sin_component(Rat(1, 2), RInt(2 * signalFrequency), t.data[j])>>]])
    /\ env' = [env EXCEPT !.ourSignal = NewRef(heap)]
    /\ pc' = "f_fft"
    /\ UNCHANGED <<exc, fig, args, loc>>

\* n = ourSignal.size; frequencies = np.fft.fftfreq(n, d=1.0/samplingRate)
\* spectrum = np.abs(np.fft.fft(ourSignal))
F_fft ==
    /\ pc = "f_fft"
    /\ LET n == heap[env.ourSignal].shape[1]
       IN  /\ heap' = Alloc(Alloc(heap, fftfreq(n, RDiv(RInt(1), RInt(samplingRate)))),
                            fft_abs(heap[env.ourSignal]))
           /\ env' = [env EXCEPT !.n = n, !.frequencies = NewRef(heap),
                                 !.spectrum = NewRef(heap) + 1]
    /\ pc' = "f_done"
    /\ UNCHANGED <<exc, fig, args, loc>>

L13Next ==
    \/ CallDFT
    \/ DFT_call
    \/ CallAperture
    \/ Aperture_call
    \/ I_xy
    \/ I_meshgrid
    \/ I_Z
    \/ I_Pzeros
    \/ I_Kzeros
    \/ I_fft
    \/ I_copy
    \/ I_mask
    \/ S_a
    \/ S_composite
    \/ S_om
    \/ CallDiffraction
    \/ D_result
    \/ D_return
    \/ F_time
    \/ F_signal
    \/ F_fft

SpecL13 == Init /\ [][L13Next]_vars

Next == TaylorNext \/ L13Next

Spec == Init /\ [][Next]_vars

----------------------------------------------------------------------------
(* Properties                                                              *)

TaylorCalled == args # NoArgs
AfterSample == {"t_x0", "t_fx", "t_plotf", "t_for", "t_ylim", "t_grid", "t_legend", "done"}
AfterX0 == AfterSample \ {"t_x0"}
RatSeq(v) == [i \in 1..Len(v) |-> RInt(v[i])]

\* the forward DFT as its definition writes it, X_k = sum over n of
\* x_n * exp(-i*2*pi*k*n/N): the first n terms, added one at a time
RECURSIVE ForwardDFT(_, _, _, _)
ForwardDFT(x, N, k, n) ==
    IF n = 0 THEN [e \in 0..(N - 1) |-> 0]
    ELSE LET e == (N - ((k * (n - 1)) % N)) % N
         IN  [ForwardDFT(x, N, k, n - 1) EXCEPT ![e] = @ + x[n - 1]]

\* C1: for every real input of length N >= 1, the k-th entry of DFT_slow(x)
\* is the forward DFT sum over n of x[n] * exp(-i*2*pi*k*n/N), k in 0..N-1.
C1_ForwardDFT ==
    pc = "dft_done" =>
        LET x == heap[env.x_signal]
            X == heap[env.dft]
            N == x.shape[1]
        IN  N >= 1 => /\ X.shape = <<N>>
                      /\ \A k \in 0..(N - 1) : X.data[k] = ForwardDFT(x.data, N, k, N)

\* a transform of length >= 3 whose entries 1 and N-1 differ (the sign of
\* the exponent shows)
C1_Witness ==
    /\ pc = "dft_done"
    /\ heap[env.x_signal].shape[1] >= 3
    /\ heap[env.dft].data[1] # heap[env.dft].data[heap[env.x_signal].shape[1] - 1]

\* C2: a call with a func that is not callable raises ValueError('func must
\* be callable') at its first statement: no sample vector, no series and
\* no plot call is made, and the figure is as before the call.
C2_NotCallableRaises ==
    (TaylorCalled /\ ~args.func.callable) =>
        /\ pc \in {"t_callable", "raised"}
        /\ pc = "raised" => exc = "ValueError: func must be callable"
        /\ fig = EmptyFig
        /\ loc = NoLoc

C2_Witness ==
    /\ TaylorCalled
    /\ ~args.func.callable
    /\ pc = "raised"
    /\ exc = "ValueError: func must be callable"

\* C4 as stated: no step of any helper changes the current figure.
C4_Original == [][pc # "idle" => fig' = fig]_vars

\* C4, amended: DFT_slow, aperture and atomic_func leave every array that
\* existed before the call, and the figure, unchanged; the steps of
\* plot_taylor_approximations leave its arguments and all arrays unchanged
\* and only add to the figure, keeping the lines it already holds.
C4_Frame ==
    [][/\ pc \in {"dft_call", "ap_call", "i_Z"} =>
            /\ fig' = fig
            /\ \A r \in DOMAIN heap : heap'[r] = heap[r]
       /\ (TaylorCalled /\ pc # "idle") =>
            /\ args' = args
            /\ heap' = heap
            /\ env' = env
            /\ Len(fig'.lines) >= Len(fig.lines)
            /\ SubSeq(fig'.lines, 1, Len(fig.lines)) = fig.lines]_vars

\* DFT_slow has returned for a list argument: the list is still a list of
\* ints, the float conversion and the transform are new arrays
C4_Witness ==
    /\ pc = "dft_done"
    /\ heap[env.x_signal].kind = "list"
    /\ heap[env.x_signal].dtype = "int"
    /\ heap[env.x_signal].shape[1] >= 2
    /\ Len(heap) = 3
    /\ fig = EmptyFig

\* C5: aperture returns a Boolean array of X's shape, True exactly where
\* (X - xoffset)^2 + (Y - yoffset)^2 is strictly greater than size^2; a
\* point exactly on the circle is False.
C5_Aperture ==
    pc = "ap_done" =>
        LET X == heap[env.X]
            Y == heap[env.Y]
            m == heap[env.mask]
            d2(i, j) == (X.data[i][j] - env.ap[1]) * (X.data[i][j] - env.ap[1])
                        + (Y.data[i][j] - env.ap[2]) * (Y.data[i][j] - env.ap[2])
            r2 == env.ap[3] * env.ap[3]
        IN  /\ m.dtype = "bool"
            /\ m.shape = X.shape
            /\ m.shape = Y.shape
            /\ \A i \in 0..(Rows(X) - 1), j \in 0..(Cols(X) - 1) :
                  /\ m.data[i][j] \in BOOLEAN
                  /\ d2(i, j) > r2 => m.data[i][j]
                  /\ d2(i, j) < r2 => ~m.data[i][j]
                  /\ d2(i, j) = r2 => ~m.data[i][j]

\* a grid with a point on a circle of radius 5 (reported False), one
\* strictly outside and one strictly inside
C5_Witness ==
    /\ pc = "ap_done"
    /\ env.ap[3] = 5
    /\ LET X == heap[env.X]
           Y == heap[env.Y]
           m == heap[env.mask]
           d2(i, j) == (X.data[i][j] - env.ap[1]) * (X.data[i][j] - env.ap[1])
                       + (Y.data[i][j] - env.ap[2]) * (Y.data[i][j] - env.ap[2])
           Pts == (0..(Rows(X) - 1)) \X (0..(Cols(X) - 1))
       IN  /\ \E q \in Pts : d2(q[1], q[2]) = 25 /\ ~m.data[q[1]][q[2]]
           /\ \E q \in Pts : d2(q[1], q[2]) > 25 /\ m.data[q[1]][q[2]]
           /\ \E q \in Pts : d2(q[1], q[2]) < 25 /\ ~m.data[q[1]][q[2]]

\* the point (x, y) lies strictly outside the circle of radius r about (cx, cy)
OutsideCircle(x, y, cx, cy, r) == (x - cx) * (x - cx) + (y - cy) * (y - cy) > r * r

\* C6: after the masking step, for every row i and column j of the 256x256
\* grid, P[i][j] = 0 when the point (x=j, y=i) is outside both circles of
\* radius 3 about (128,128) and (150,128), and P[i][j] = K[i][j] otherwise.
C6_Masked ==
    pc = "i_done" =>
        LET P == heap[env.P]
            K == heap[env.K]
        IN  \A i \in 0..255, j \in 0..255 :
               P.data[i][j] = IF OutsideCircle(j, i, 128, 128, 3) /\ OutsideCircle(j, i, 150, 128, 3)
                              THEN 0
                              ELSE K.data[i][j]

\* a spectrum that is not zero at the centre of the second circle (row 128,
\* column 150), on its rim (row 128, column 153), nor at the transposed
\* point (row 150, column 128): the first two are kept, the third is zeroed
C6_Witness ==
    /\ pc = "i_done"
    /\ heap[env.K].data[128][150] # 0
    /\ heap[env.P].data[128][150] = heap[env.K].data[128][150]
    /\ heap[env.K].data[128][153] # 0
    /\ heap[env.P].data[128][153] = heap[env.K].data[128][153]
    /\ heap[env.K].data[150][128] # 0
    /\ heap[env.P].data[150][128] = 0

\* C7: P is an independent copy of K: the masking step leaves every entry
\* of K unchanged, and P and K have the shape of Z.
C7_KUnchanged ==
    [][pc = "i_mask" =>
          /\ env.P # env.K
          /\ heap'[env'.K] = heap[env.K]
          /\ heap'[env'.P].shape = heap'[env'.Z].shape
          /\ heap'[env'.K].shape = heap'[env'.Z].shape]_vars

\* the masking step has zeroed entries of P that are not zero in K
C7_Witness ==
    /\ pc = "i_done"
    /\ env.P # env.K
    /\ heap[env.P].data[0][0] = 0
    /\ heap[env.K].data[0][0] # 0

\* C8 as stated: whenever xrange holds the sample values themselves (an
\* array, or a list or tuple of three or more values, which is no
\* (xmin, xmax) pair), the sample vector is exactly those values.
C8_Original ==
    (TaylorCalled /\ pc \in AfterSample
        /\ (args.xrange.kind = "ndarray" \/ Len(args.xrange.vals) >= 3)) =>
        loc.x.vals = RatSeq(args.xrange.vals)

\* C8, amended: when xrange is a numpy array, of any length, the sample
\* vector is exactly that array and every plotted line is evaluated at its
\* values; a list or tuple is always read as an (xmin, xmax) pair, sampled
\* at npts points between its first two elements.
C8_ArrayUsedAsIs ==
    (TaylorCalled /\ pc \in AfterSample) =>
        IF args.xrange.kind = "ndarray"
        THEN /\ loc.x.vals = RatSeq(args.xrange.vals)
             /\ loc.x.dtype = args.xrange.dtype
             /\ \A l \in 1..Len(fig.lines) :
                   /\ fig.lines[l].x = RatSeq(args.xrange.vals)
                   /\ Len(fig.lines[l].y) = Len(args.xrange.vals)
             /\ Len(fig.lines) >= 1 =>
                   \A i \in 1..Len(args.xrange.vals) :
                       fig.lines[1].y[i] = PolyEval(args.func.fx, RInt(args.xrange.vals[i]))
        ELSE /\ Len(loc.x.vals) = args.npts
             /\ \A i \in 1..args.npts :
                   loc.x.vals[i] = RAdd(RInt(args.xrange.vals[1]),
                                        Rat((i - 1) * (args.xrange.vals[2] - args.xrange.vals[1]),
                                            IF args.npts = 1 THEN 1 ELSE args.npts - 1))

\* a finished call on an array of two distinct values with npts = 3, and
\* an approximation plotted
C8_Witness ==
    /\ TaylorCalled
    /\ pc = "done"
    /\ args.xrange.kind = "ndarray"
    /\ args.xrange.vals = <<2, 0>>
    /\ args.npts = 3
    /\ Len(fig.lines) >= 2

\* C9: when x0 is None the expansion point of every Taylor approximation is
\* xrange[0], the first sample point.
C9_DefaultX0 ==
    (TaylorCalled /\ args.x0 = None) =>
        /\ pc \in AfterX0 => /\ loc.x0 = RInt(args.xrange.vals[1])
                             /\ loc.x0 = loc.x.vals[1]
        /\ \A l \in 1..Len(fig.lines) :
              fig.lines[l].label.order # 0 =>
                  fig.lines[l].label.app.x0 = RInt(args.xrange.vals[1])

\* a finished call with x0 = None, an approximation plotted, and a first
\* sample point that is neither 0 nor the last sample point
C9_Witness ==
    /\ TaylorCalled
    /\ pc = "done"
    /\ args.x0 = None
    /\ Len(fig.lines) >= 2
    /\ args.xrange.vals[1] = 2
    /\ loc.x.vals[Len(loc.x.vals)] # loc.x.vals[1]

\* C10 as stated: for an (xmin, xmax) pair the sample vector has npts
\* points, the first xmin and the last xmax.
C10_Original ==
    (TaylorCalled /\ pc \in AfterSample /\ is_pair(args.xrange)
        /\ Len(args.xrange.vals) = 2) =>
        /\ Len(loc.x.vals) = args.npts
        /\ args.npts >= 1 => /\ loc.x.vals[1] = RInt(args.xrange.vals[1])
                             /\ loc.x.vals[args.npts] = RInt(args.xrange.vals[2])

\* C10, amended: for an (xmin, xmax) pair the sample vector has npts
\* points; the first is xmin when npts >= 1 and the last is xmax when
\* npts >= 2 (the single point of npts = 1 is xmin).  npts has no effect
\* when xrange is an array: the sample vector is that array, whatever
\* npts is.
C10_Npts ==
    (TaylorCalled /\ pc \in AfterSample) =>
        IF is_pair(args.xrange)
        THEN /\ Len(loc.x.vals) = args.npts
             /\ args.npts >= 1 => loc.x.vals[1] = RInt(args.xrange.vals[1])
             /\ args.npts >= 2 => loc.x.vals[args.npts] = RInt(args.xrange.vals[2])
        ELSE /\ Len(loc.x.vals) = Len(args.xrange.vals)
             /\ \A i \in 1..Len(loc.x.vals) : loc.x.vals[i] = RInt(args.xrange.vals[i])

\* a finished call on the pair (0, 2) sampled with three points
C10_Witness ==
    /\ TaylorCalled
    /\ pc = "done"
    /\ args.xrange.kind = "tuple"
    /\ args.xrange.vals = <<0, 2>>
    /\ args.npts = 3
    /\ loc.x.vals = <<RInt(0), RInt(1), RInt(2)>>

\* C11: the sampled function is plotted first, then one approximation per
\* entry of orders, in the order given: a successful call issues
\* 1 + len(orders) plot calls, and a repeated order is plotted again.
AfterLoop == {"t_ylim", "t_grid", "t_legend", "done"}
C11_PlotOrder ==
    TaylorCalled =>
        /\ pc \in {"t_callable", "t_sample", "t_x0", "t_fx", "t_plotf"} => Len(fig.lines) = 0
        /\ pc = "t_for" => Len(fig.lines) = 1 + loc.i
        /\ pc \in AfterLoop => Len(fig.lines) = 1 + Len(args.orders)
        /\ Len(fig.lines) >= 1 =>
              /\ fig.lines[1].label.order = 0
              /\ fig.lines[1].label.app = args.func.fx
        /\ \A l \in 2..Len(fig.lines) : fig.lines[l].label.order = args.orders[l - 1]

\* a finished call with orders = (3, 3): three lines, the last two alike
C11_Witness ==
    /\ TaylorCalled
    /\ pc = "done"
    /\ args.orders = <<3, 3>>
    /\ Len(fig.lines) = 3
    /\ fig.lines[2] = fig.lines[3]

\* C12: the y limits are set to yrange only when yrange is given; when
\* yrange is None they are never touched (the automatic range stays).
C12_Ylim ==
    TaylorCalled =>
        /\ args.yrange = None => fig.ylim = None
        /\ pc \notin {"t_grid", "t_legend", "done"} => fig.ylim = None
        /\ (pc \in {"t_grid", "t_legend", "done"} /\ args.yrange # None) =>
              fig.ylim = args.yrange

\* one finished call with yrange = (-2, 2) in force
C12_Witness ==
    /\ TaylorCalled
    /\ pc = "done"
    /\ args.yrange = <<-2, 2>>
    /\ fig.ylim = <<-2, 2>>
    /\ Len(fig.lines) >= 2

\* C13: atomic_func has period 64 (its param) in x and in y: at every grid
\* coordinate atomic_func(x + 64, y) = atomic_func(x, y) = atomic_func(x, y + 64),
\* and the 256 x 256 grid Z holds a whole number of periods along each axis.
\* Equality is that of the real values: both sines have the same phase.
HasZ == {"i_Pzeros", "i_Kzeros", "i_fft", "i_copy", "i_mask", "i_done"}
C13_Periodic ==
    pc \in HasZ =>
        LET Z == heap[env.Z]
        IN  /\ Z.shape = <<256, 256>>
            /\ 256 % 64 = 0
            /\ \A i \in 0..255, j \in 0..255 :
                  /\ Z.data[i][j] = atomic_point(j, i)
                  /\ atomic_point(j + 64, i) = Z.data[i][j]
                  /\ atomic_point(j, i + 64) = Z.data[i][j]
                  /\ Z.data[i][(j + 64) % 256] = Z.data[i][j]
                  /\ Z.data[(i + 64) % 256][j] = Z.data[i][j]

\* Z is computed and is not constant: neighbours along a row and along a
\* column differ, points 64 apart agree
C13_Witness ==
    /\ pc \in HasZ
    /\ heap[env.Z].data[0][1] # heap[env.Z].data[0][0]
    /\ heap[env.Z].data[1][0] # heap[env.Z].data[0][0]
    /\ heap[env.Z].data[0][16] # heap[env.Z].data[0][0]
    /\ heap[env.Z].data[0][64] = heap[env.Z].data[0][0]
    /\ heap[env.Z].data[64][0] = heap[env.Z].data[0][0]

----------------------------------------------------------------------------
(* The interpreter keeps executing the cell it is evaluating: no step that *)
(* is enabled is postponed for ever.                                       *)

\* the calls whose loop is followed to its end: every func, x0, orders and
\* yrange, over the interval (0, 2) sampled at MaxNpts points
LoopArgs ==
    [func : Funcs, x0 : X0s, orders : SeqsUpTo(OrderVals, MaxOrders),
     xrange : {[kind |-> "tuple", dtype |-> "int", vals |-> <<0, 2>>]},
     yrange : YRanges, npts : {MaxNpts}]

\* the kernel right after a call of plot_taylor_approximations or of
\* DFT_slow has been made: the states CallTaylor and CallDFT lead to
InitCalled ==
    /\ exc = "none"
    /\ fig = EmptyFig
    /\ loc = NoLoc
    /\ \/ /\ pc = "t_callable"
          /\ args \in LoopArgs
          /\ heap = <<>>
          /\ env = NoEnv
       \/ /\ pc = "dft_call"
          /\ args = NoArgs
          /\ \E a \in Signals : heap = <<a>>
          /\ env = [NoEnv EXCEPT !.x_signal = 1]

\* the statements of the two routines
RunNext ==
    \/ T_callable
    \/ T_sample
    \/ T_x0
    \/ T_fx
    \/ T_plotf
    \/ T_for_body
    \/ T_for_exit
    \/ T_ylim
    \/ T_grid
    \/ T_legend
    \/ DFT_call

SpecFair == InitCalled /\ [][RunNext]_vars /\ WF_vars(RunNext)

\* C14: every helper call runs to completion: DFT_slow returns for every
\* input length, and the loop of plot_taylor_approximations makes exactly
\* len(orders) iterations, after which the call returns.
C14_Terminates ==
    /\ [](TaylorCalled /\ pc \in AfterLoop => loc.i = Len(args.orders))
    /\ [](TaylorCalled /\ pc = "t_for" => loc.i <= Len(args.orders))
    /\ (pc = "t_for") ~> (pc = "done")
    /\ (pc = "dft_call") ~> (pc = "dft_done")

\* a call that returned after two iterations of the loop
C14_Witness ==
    /\ TaylorCalled
    /\ pc = "done"
    /\ Len(args.orders) = 2
    /\ loc.i = 2

----------------------------------------------------------------------------
(* The Fourier integrals                                                    *)

HasA == {"s_composite", "s_om", "s_call", "d_result", "d_return", "s_done"}
HasComposite == HasA \ {"s_composite"}
HasResult == {"d_return", "s_done"}

\* C15: the Fourier integrals of the top-hat cell, of compositeIntegral and
\* of diffractionFunction are the ones the notebook's definition gives: the
\* prefactor sqrt(1/(2 pi)) and the kernel exp(-i omega x), with omega itself
\* multiplying x in the exponent.
C15_KernelAsDefined ==
    /\ pc \in HasA =>
          \A q \in DOMAIN heap[env.a].coef :
             q[1] = FourierDefinition.pref /\ q[2] = FourierDefinition.k
    /\ pc \in HasComposite =>
          \A t \in DOMAIN heap[env.compositeIntegral].terms :
             /\ t.pref = FourierDefinition.pref
             /\ t.integral.k = FourierDefinition.k
    /\ pc \in HasResult =>
          \A t \in DOMAIN heap[env.result].terms :
             /\ t.pref = FourierDefinition.pref
             /\ t.integral.k = FourierDefinition.k

\* the numbers of an evaluated sum, Integer or Float alike
ValueOf(s) == {<<q[1], q[2], Value(q[3]), s.coef[q]>> : q \in DOMAIN s.coef}
Interval(t) == <<Value(t.integral.lo), Value(t.integral.hi)>>

\* C16: diffractionFunction(d, w) integrates the integrand of
\* compositeIntegral over [-(d+w), -(d-w)] and [d-w, d+w]: two intervals that
\* mirror each other about the origin, each 2*w wide, centred at -d and +d;
\* with d = 1.5 and w = 0.5 they are the [-2,-1] and [1,2] of
\* compositeIntegral, and the value returned is that of om.
C16_Diffraction ==
    pc \in HasResult =>
        LET d == env.dw[1]
            w == env.dw[2]
            R == heap[env.result].terms
            C == heap[env.compositeIntegral].terms
        IN  /\ \A t \in DOMAIN R : R[t] = 1
            /\ \A t \in DOMAIN R, u \in DOMAIN C :
                  /\ t.pref = u.pref
                  /\ t.integral.f = u.integral.f
                  /\ t.integral.k = u.integral.k
                  /\ t.integral.var = u.integral.var
            /\ \E l \in DOMAIN R, r \in DOMAIN R :
                  /\ DOMAIN R = {l, r}
                  /\ l.integral.lo.num = RSub(RInt(0), RAdd(d, w))
                  /\ l.integral.hi.num = RSub(RInt(0), RSub(d, w))
                  /\ r.integral.lo.num = RSub(d, w)
                  /\ r.integral.hi.num = RAdd(d, w)
                  /\ Value(l.integral.lo) = Value(neg(r.integral.hi))
                  /\ Value(l.integral.hi) = Value(neg(r.integral.lo))
                  /\ RSub(l.integral.hi.num, l.integral.lo.num) = RMul(RInt(2), w)
                  /\ RSub(r.integral.hi.num, r.integral.lo.num) = RMul(RInt(2), w)
                  /\ RAdd(l.integral.lo.num, l.integral.hi.num) = RMul(RInt(-2), d)
                  /\ RAdd(r.integral.lo.num, r.integral.hi.num) = RMul(RInt(2), d)
                  /\ l.integral.lo.sym = 0 /\ l.integral.hi.sym = 0
                  /\ r.integral.lo.sym = 0 /\ r.integral.hi.sym = 0
            /\ (d = Rat(3, 2) /\ w = Rat(1, 2)) =>
                  /\ {Interval(t) : t \in DOMAIN R} = {Interval(u) : u \in DOMAIN C}
                  /\ {Interval(t) : t \in DOMAIN R} =
                        {<<Value(Integer(-2)), Value(Integer(-1))>>,
                         <<Value(Integer(1)), Value(Integer(2))>>}
                  /\ pc = "s_done" => ValueOf(heap[env.diffraction]) = ValueOf(heap[env.om])

\* diffractionFunction(1.5, 0.5) has returned: four exponentials, at -2, -1,
\* 1 and 2, and the value of om
C16_Witness ==
    /\ pc = "s_done"
    /\ env.dw = <<Rat(3, 2), Rat(1, 2)>>
    /\ Cardinality(DOMAIN heap[env.diffraction].coef) = 4
    /\ ValueOf(heap[env.diffraction]) = ValueOf(heap[env.om])
    /\ heap[env.diffraction] # heap[env.om]

----------------------------------------------------------------------------
(* The sampled signal                                                       *)

\* C17: sampling at samplingRate = 150 over [0, 1) in steps of
\* 1/samplingRate gives n = 150 samples; the bins of fftfreq(n,
\* d=1/samplingRate) are samplingRate/n = 1 Hz apart; the 10 Hz and 20 Hz
\* components of ourSignal fall exactly on bins 10 and 20 and on their
\* negative-frequency mirrors, bins 140 and 130.
C17_Bins ==
    pc = "f_done" =>
        LET t == heap[env.timeVector]
            f == heap[env.frequencies]
            s == heap[env.spectrum]
        IN  /\ env.n = 150
            /\ t.shape = <<150>>
            /\ \A j \in 0..149 : t.data[j] = Rat(j, 150)
            /\ RDiv(RInt(samplingRate), RInt(env.n)) = RInt(1)
            /\ \A k \in 0..148 : k # 74 => RSub(f.data[k + 1], f.data[k]) = RInt(1)
            /\ {f.data[k] : k \in 0..149} = {RInt(v) : v \in (-75)..74}
            /\ f.data[10] = RInt(signalFrequency)
            /\ f.data[20] = RInt(2 * signalFrequency)
            /\ f.data[140] = RInt(-signalFrequency)
            /\ f.data[130] = RInt(-2 * signalFrequency)
            /\ \A k \in 0..149 :
                  /\ ~s.data[k].leak
                  /\ s.data[k].mag # RInt(0) <=> k \in {10, 20, 130, 140}
            /\ s.data[10].mag = RInt(75) /\ s.data[140].mag = RInt(75)
            /\ s.data[20].mag = Rat(75, 2) /\ s.data[130].mag = Rat(75, 2)

\* the spectrum is computed: 150 bins, peaks of 75 and 37.5 at 10 and 20 Hz
C17_Witness ==
    /\ pc = "f_done"
    /\ env.n = 150
    /\ heap[env.frequencies].data[10] = RInt(10)
    /\ heap[env.spectrum].data[10].mag = RInt(75)
    /\ heap[env.spectrum].data[20].mag = Rat(75, 2)
    /\ heap[env.spectrum].data[11].mag = RInt(0)

====
